---- MODULE Spec2Model ----
(***************************************************************************)
(* EGLImage support of glutin: Display::create_image, Image::clone and     *)
(* Drop for Image (glutin/src/api/egl/image.rs), on one EGL display.       *)
(*                                                                         *)
(* The EGL driver is an external collaborator.  Its state is the set of    *)
(* live native images and the next handle it hands out.  Whether a         *)
(* creation call succeeds is a nondeterministic input; a destroy call      *)
(* returns TRUE exactly for a live image.                                  *)
(***************************************************************************)
EXTENDS Integers, Sequences, FiniteSets, TLC

VARIABLES
    version,            \* self.inner.version: <<major, minor>>
    display_extensions, \* self.inner.display_extensions: set of names
    displays,           \* Display handles the caller holds
    strong,             \* strong count of the Arc behind Display
    terminated,         \* the native display has been torn down
    images,             \* the Image values that exist, each [display, raw]
    nativeImages,       \* driver: raw handles of the live native images
    nextRaw,            \* driver: the next raw handle it returns
    checkedRaws,        \* raw handles whose creation passed the error check
    createdOk,          \* number of create_image calls that returned Ok
    destroyCount,       \* raw handle -> number of destroy calls that got it
    panic,              \* "none", "unwinding" or "aborted"
    openFds,            \* the caller's open file descriptors
    creator,            \* raw handle -> entry point that created it
    last                \* the last operation and the native calls it issued

vars == <<version, display_extensions, displays, strong, terminated, images,
          nativeImages, nextRaw, checkedRaws, createdOk, destroyCount, panic,
          openFds, creator, last>>

----------------------------------------------------------------------------
\* Bounds of the model.

\* native images the driver hands out in one run
MaxCreates == 2
\* Image values alive at once (created or cloned)
MaxImages == 2
\* Display handles the caller holds at once
MaxDisplays == 2

----------------------------------------------------------------------------
\* EGL enumerants used by create_image (values of the Khronos registry, as
\* the generated bindings define them).

TRUE_ == 1
FALSE_ == 0
NONE == 12344
WIDTH == 12375
HEIGHT == 12374
IMAGE_PRESERVED == 12498
LINUX_DRM_FOURCC_EXT == 12913
DMA_BUF_PLANE0_FD_EXT == 12914
DMA_BUF_PLANE0_OFFSET_EXT == 12915
DMA_BUF_PLANE0_PITCH_EXT == 12916
DMA_BUF_PLANE1_FD_EXT == 12917
DMA_BUF_PLANE1_OFFSET_EXT == 12918
DMA_BUF_PLANE1_PITCH_EXT == 12919
DMA_BUF_PLANE2_FD_EXT == 12920
DMA_BUF_PLANE2_OFFSET_EXT == 12921
DMA_BUF_PLANE2_PITCH_EXT == 12922
NATIVE_PIXMAP_KHR == 12464
LINUX_DMA_BUF_EXT == 12912
NO_CONTEXT == 0
\* EGL_NO_IMAGE: what a failed creation call returns
NO_IMAGE == 0

----------------------------------------------------------------------------
\* Inputs.

ExtensionNames ==
    {"EGL_KHR_image", "EGL_KHR_image_base", "EGL_KHR_native_pixmap",
     "EGL_EXT_image_dma_buf_import"}

Versions == {<<1, 1>>, <<1, 2>>, <<1, 4>>, <<1, 5>>, <<2, 0>>}

\* Option<T>: None is the empty sequence, Some(x) the one-element sequence
None == <<>>

Some(x) == <<x>>

\* DmaBufPlane { fd, offset, pitch }
DmaBufPlane(fd, offset, pitch) == [fd |-> fd, offset |-> offset, pitch |-> pitch]

\* The planes offered as plane0, plane1 and plane2.  The offset and pitch of
\* the second have the numeric values of NONE and IMAGE_PRESERVED: values
\* are arbitrary i32 and may coincide with keys.
Plane0s == {DmaBufPlane(3, 0, 256)}

Plane1s == {None, Some(DmaBufPlane(4, 12344, 12498))}

Plane2s == {None, Some(DmaBufPlane(5, 128, 64))}

\* the file descriptors the caller has open at the start: those of the planes
CallerFds == {3, 4, 5}

\* ImageBuffer::NativePixmap { buffer }
NativePixmap(buffer) == [kind |-> "NativePixmap", buffer |-> buffer]

\* ImageBuffer::DmaBuf { plane0, width, height, drm_fourcc, plane1, plane2 }
DmaBuf(plane0, width, height, drm_fourcc, plane1, plane2) ==
    [kind |-> "DmaBuf", plane0 |-> plane0, width |-> width, height |-> height,
     drm_fourcc |-> drm_fourcc, plane1 |-> plane1, plane2 |-> plane2]

ImageBuffers ==
    {NativePixmap(7)} \cup
    {DmaBuf(p0, 64, 48, 875713112, p1, p2) :
        p0 \in Plane0s, p1 \in Plane1s, p2 \in Plane2s}

\* What the driver answers to a creation call: eglGetError afterwards
NativeErrors == {"SUCCESS", "BAD_ALLOC"}

----------------------------------------------------------------------------
\* Version: ordered by major, then minor.

Version(major, minor) == <<major, minor>>

VersionLess(a, b) == a[1] < b[1] \/ (a[1] = b[1] /\ a[2] < b[2])

VersionAtLeast(a, b) == ~VersionLess(a, b)

----------------------------------------------------------------------------
\* Vec<i32>

\* Vec::insert(index, element), index counted from 0
VecInsert(v, index, element) ==
    SubSeq(v, 1, index) \o <<element>> \o SubSeq(v, index + 1, Len(v))

\* Vec::push(element)
VecPush(v, element) == Append(v, element)

----------------------------------------------------------------------------
\* Display::create_image

NotSupported(msg) == [kind |-> "NotSupported", msg |-> msg]

\* if self.inner.version < Version::new(1, 2)
BelowVersionFloor(self) == VersionLess(self.version, Version(1, 2))

\* PreservedUnsupported without the extension alternative
PreservedUnsupportedBelow15(self) == VersionLess(self.version, Version(1, 5))

\* the test guarding the IMAGE_PRESERVED attribute
PreservedUnsupported(self) ==
    /\ VersionLess(self.version, Version(1, 5))
    /\ "EGL_KHR_image_base" \notin self.display_extensions

\* InsertPreserved with both elements inserted at index 0
InsertPreservedBothAtHead(attrib) ==
    VecInsert(VecInsert(attrib, 0, IMAGE_PRESERVED), 0, TRUE_)

\* attrib.insert(0, IMAGE_PRESERVED); attrib.insert(1, TRUE)
InsertPreserved(attrib) ==
    VecInsert(VecInsert(attrib, 0, IMAGE_PRESERVED), 1, TRUE_)

\* NativePixmapUnsupported with the || grouped first
NativePixmapUnsupportedGrouped(self) ==
    /\ VersionLess(self.version, Version(1, 5))
    /\ ~(/\ \/ "EGL_KHR_image" \in self.display_extensions
            \/ "EGL_KHR_image_base" \in self.display_extensions
         /\ "EGL_KHR_native_pixmap" \in self.display_extensions)

\* the test of the NativePixmap arm (|| binds weaker than &&)
NativePixmapUnsupported(self) ==
    /\ VersionLess(self.version, Version(1, 5))
    /\ ~(\/ "EGL_KHR_image" \in self.display_extensions
         \/ /\ "EGL_KHR_image_base" \in self.display_extensions
            /\ "EGL_KHR_native_pixmap" \in self.display_extensions)

\* DmaBufImportMissing with the import extension waived at EGL 1.5
DmaBufImportMissingBelow15(self) ==
    /\ VersionLess(self.version, Version(1, 5))
    /\ "EGL_EXT_image_dma_buf_import" \notin self.display_extensions

\* the first test of the DmaBuf arm
DmaBufImportMissing(self) ==
    "EGL_EXT_image_dma_buf_import" \notin self.display_extensions

\* the second test of the DmaBuf arm
DmaBufBaseMissing(self) ==
    /\ VersionLess(self.version, Version(1, 5))
    /\ "EGL_KHR_image_base" \notin self.display_extensions

\* the three pushes of one plane: fd, offset, pitch
PushPlane(attrib, fdKey, offsetKey, pitchKey, plane) ==
    VecPush(VecPush(VecPush(VecPush(VecPush(VecPush(attrib,
        fdKey), plane.fd), offsetKey), plane.offset), pitchKey), plane.pitch)

\* PushOptionalPlane writing an absent plane as three null entries
PushOptionalPlaneNull(attrib, fdKey, offsetKey, pitchKey, plane) ==
    IF plane # None
    THEN PushPlane(attrib, fdKey, offsetKey, pitchKey, plane[1])
    ELSE PushPlane(attrib, fdKey, offsetKey, pitchKey, DmaBufPlane(-1, 0, 0))

\* if let Some(plane) = plane { push its three pairs }
PushOptionalPlane(attrib, fdKey, offsetKey, pitchKey, plane) ==
    IF plane # None
    THEN PushPlane(attrib, fdKey, offsetKey, pitchKey, plane[1])
    ELSE attrib

\* the pushes of the DmaBuf arm
PushDmaBuf(attrib, b) ==
    LET a1 == VecPush(VecPush(attrib, WIDTH), b.width)
        a2 == VecPush(VecPush(a1, HEIGHT), b.height)
        a3 == VecPush(VecPush(a2, LINUX_DRM_FOURCC_EXT), b.drm_fourcc)
        a4 == PushPlane(a3, DMA_BUF_PLANE0_FD_EXT, DMA_BUF_PLANE0_OFFSET_EXT,
                        DMA_BUF_PLANE0_PITCH_EXT, b.plane0)
        a5 == PushOptionalPlane(a4, DMA_BUF_PLANE1_FD_EXT,
                        DMA_BUF_PLANE1_OFFSET_EXT, DMA_BUF_PLANE1_PITCH_EXT,
                        b.plane1)
    IN  PushOptionalPlane(a5, DMA_BUF_PLANE2_FD_EXT, DMA_BUF_PLANE2_OFFSET_EXT,
                        DMA_BUF_PLANE2_PITCH_EXT, b.plane2)

\* let (buffer, target, ctx) = match buffer { ... }: either the early return
\* of an arm (err) or the triple together with the attribute list so far
MatchBuffer(self, buffer, attrib) ==
    IF buffer.kind = "NativePixmap"
    THEN IF NativePixmapUnsupported(self)
         THEN [err |-> Some(NotSupported("NativePixmap")),
               buffer |-> 0, target |-> 0, ctx |-> 0, attrib |-> attrib]
         ELSE [err |-> None, buffer |-> buffer.buffer,
               target |-> NATIVE_PIXMAP_KHR, ctx |-> NO_CONTEXT,
               attrib |-> attrib]
    ELSE IF DmaBufImportMissing(self)
         THEN [err |-> Some(NotSupported("EGL_EXT_image_dma_buf_import")),
               buffer |-> 0, target |-> 0, ctx |-> 0, attrib |-> attrib]
         ELSE IF DmaBufBaseMissing(self)
         THEN [err |-> Some(NotSupported("EGL_KHR_image_base")),
               buffer |-> 0, target |-> 0, ctx |-> 0, attrib |-> attrib]
         ELSE [err |-> None, buffer |-> 0, target |-> LINUX_DMA_BUF_EXT,
               ctx |-> NO_CONTEXT, attrib |-> PushDmaBuf(attrib, buffer)]

\* attrib.into_iter().map(|a| a as _): i32 to EGLAttrib (isize), a widening
\* signed cast, which keeps the value of every i32
AsEGLAttrib(attrib) == [i \in 1..Len(attrib) |-> attrib[i]]

\* CreateCall comparing the minor version alone
CreateCallMinorOnly(self, ctx, target, buffer, attrib) ==
    IF self.version[2] >= 5
    THEN [fn |-> "CreateImage", ctx |-> ctx, target |-> target,
          buffer |-> buffer, attrib |-> AsEGLAttrib(attrib)]
    ELSE [fn |-> "CreateImageKHR", ctx |-> ctx, target |-> target,
          buffer |-> buffer, attrib |-> attrib]

\* the branch choosing the creation entry point, and the call it issues
CreateCall(self, ctx, target, buffer, attrib) ==
    IF VersionAtLeast(self.version, Version(1, 5))
    THEN [fn |-> "CreateImage", ctx |-> ctx, target |-> target,
          buffer |-> buffer, attrib |-> AsEGLAttrib(attrib)]
    ELSE [fn |-> "CreateImageKHR", ctx |-> ctx, target |-> target,
          buffer |-> buffer, attrib |-> attrib]

\* super::check_error(): Ok(()) exactly when eglGetError() is EGL_SUCCESS
check_error(native) ==
    IF native = "SUCCESS" THEN None ELSE Some([kind |-> native, msg |-> ""])

\* Clone for Display: one more strong reference to the shared inner display
Display_clone(count) == count + 1

\* Image { display, raw }
Image(display, raw) == [display |-> display, raw |-> raw]

\* MapImage wrapping the handle whatever check_error() says
MapImageUnchecked(count, err, raw, calls) ==
    [err |-> None, image |-> Some(Image("display", raw)),
     strong |-> Display_clone(count), calls |-> calls]

\* MapImage with an Image that takes no strong reference to the display
MapImageWeak(count, err, raw, calls) ==
    IF err = None
    THEN [err |-> None, image |-> Some(Image("display", raw)),
          strong |-> count, calls |-> calls]
    ELSE [err |-> err, image |-> None, strong |-> count, calls |-> calls]

\* check_error().map(|()| Image { display: self.clone(), raw: image }):
\* the Result returned, the calls issued and the strong count afterwards
MapImage(count, err, raw, calls) ==
    IF err = None
    THEN [err |-> None, image |-> Some(Image("display", raw)),
          strong |-> Display_clone(count), calls |-> calls]
    ELSE [err |-> err, image |-> None, strong |-> count, calls |-> calls]

\* an early return Err(...): nothing called, nothing constructed
EarlyReturn(count, err) ==
    [err |-> Some(err), image |-> None, strong |-> count, calls |-> <<>>]

\* create_image issuing the creation call before the buffer kind is checked
create_imageProbing(self, count, buffer, image_preserved, native, raw) ==
    IF BelowVersionFloor(self)
    THEN EarlyReturn(count, NotSupported("eglCreateImage"))
    ELSE IF image_preserved /\ PreservedUnsupported(self)
    THEN EarlyReturn(count, NotSupported("IMAGE_PRESERVED"))
    ELSE LET attrib0 == IF image_preserved THEN InsertPreserved(<<>>) ELSE <<>>
             m == MatchBuffer(self, buffer, attrib0)
             attrib == VecPush(m.attrib, NONE)
             call == CreateCall(self, m.ctx, m.target, m.buffer, attrib)
         IN  IF m.err # None
             THEN [EarlyReturn(count, m.err[1]) EXCEPT !.calls = <<call>>]
             ELSE MapImage(count, check_error(native), raw, <<call>>)

\* create_image(&self, buffer, image_preserved).  count is the strong count
\* of self; native and raw are the driver's answer to the creation call
\* (the eglGetError code and the handle returned), used only if it is made.
create_image(self, count, buffer, image_preserved, native, raw) ==
    IF BelowVersionFloor(self)
    THEN EarlyReturn(count, NotSupported("eglCreateImage"))
    ELSE IF image_preserved /\ PreservedUnsupported(self)
    THEN EarlyReturn(count, NotSupported("IMAGE_PRESERVED"))
    ELSE LET attrib0 == IF image_preserved THEN InsertPreserved(<<>>) ELSE <<>>
             m == MatchBuffer(self, buffer, attrib0)
         IN  IF m.err # None
             THEN EarlyReturn(count, m.err[1])
             ELSE LET attrib == VecPush(m.attrib, NONE)
                      call == CreateCall(self, m.ctx, m.target, m.buffer, attrib)
                  IN  MapImage(count, check_error(native), raw, <<call>>)

\* the drop of a plane's fd, an owned descriptor that closes on drop
DropOwnedFd(open, fd) == open \ {fd}

\* the drop of a plane's fd: BorrowedFd<'a>, which has no destructor and
\* leaves the descriptor open
DropBorrowedFd(open, fd) == open

\* the drop of an Option<DmaBufPlane>
DropOptionalPlane(open, plane) ==
    IF plane # None THEN DropBorrowedFd(open, plane[1].fd) ELSE open

\* buffer: ImageBuffer<'_> is taken by value and dropped before
\* create_image returns, on every path: the open descriptors afterwards
DropImageBuffer(open, buffer) ==
    IF buffer.kind = "DmaBuf"
    THEN DropOptionalPlane(
             DropOptionalPlane(DropBorrowedFd(open, buffer.plane0.fd),
                               buffer.plane1),
             buffer.plane2)
    ELSE open

\* the descriptors a buffer borrows; they are open while it is borrowed
BorrowedFds(buffer) ==
    IF buffer.kind = "DmaBuf"
    THEN {buffer.plane0.fd}
         \cup {buffer.plane1[i].fd : i \in 1..Len(buffer.plane1)}
         \cup {buffer.plane2[i].fd : i \in 1..Len(buffer.plane2)}
    ELSE {}

----------------------------------------------------------------------------
\* Drop for Image

\* the branch choosing the destroy entry point, and the call it issues
DestroyCall(self, raw) ==
    IF VersionAtLeast(self.version, Version(1, 5))
    THEN [fn |-> "DestroyImage", raw |-> raw]
    ELSE [fn |-> "DestroyImageKHR", raw |-> raw]

\* the destroy result compared with nothing
DropAssertIgnored(ret) == TRUE

\* assert_eq!(<destroy call>, egl::TRUE)
DropAssertHolds(ret) == ret = TRUE_

\* Drop for Display, and the drop of an Image's display field: one strong
\* reference less
Display_drop(count) == count - 1

\* the inner display is torn down when its last strong reference goes
TornDown(count) == count = 0

\* what a failed assertion does to the program: it unwinds (the remaining
\* destructors still run) or aborts, as the build decides; a second panic
\* while unwinding aborts
PanicOutcomes(p) == IF p = "none" THEN {"unwinding", "aborted"} ELSE {"aborted"}

----------------------------------------------------------------------------
\* The driver

\* eglDestroyImage(KHR): TRUE for a live image of an initialized display,
\* which it destroys; FALSE (EGL_BAD_PARAMETER, EGL_NOT_INITIALIZED) for
\* any other handle
DriverDestroyResults(raw) ==
    IF raw \in nativeImages /\ ~terminated THEN {TRUE_} ELSE {FALSE_}

----------------------------------------------------------------------------
\* The state machine

Self == [version |-> version, display_extensions |-> display_extensions]

RemoveAt(s, i) == SubSeq(s, 1, i - 1) \o SubSeq(s, i + 1, Len(s))

NoRequest == [buffer |-> NativePixmap(0), image_preserved |-> FALSE]

\* The record of one operation: its request, the driver's answer (if it was
\* asked), the Result's error (None for Ok), the Image it constructed, the
\* native calls it issued, and whether the native display was still up when
\* it ran.
Op(name, request, native, result, image, calls, live) ==
    [op |-> name, request |-> request, native |-> native, result |-> result,
     image |-> image, calls |-> calls, display_live |-> live]

Init ==
    /\ version \in Versions
    /\ display_extensions \in SUBSET ExtensionNames
    /\ displays = 1
    /\ strong = 1
    /\ terminated = FALSE
    /\ images = <<>>
    /\ nativeImages = {}
    /\ nextRaw = 1
    /\ checkedRaws = {}
    /\ createdOk = 0
    /\ destroyCount = [r \in 0..MaxCreates |-> 0]
    /\ panic = "none"
    /\ openFds = CallerFds
    /\ creator = [r \in 0..MaxCreates |-> ""]
    /\ last = Op("connect", NoRequest, "", None, None, <<>>, TRUE)

\* display.create_image(buffer, image_preserved) on a Display handle the
\* caller holds
CreateImage ==
    /\ panic = "none"
    /\ displays > 0
    /\ Len(images) < MaxImages
    /\ nextRaw <= MaxCreates
    /\ \E buffer \in {b \in ImageBuffers : BorrowedFds(b) \subseteq openFds},
          image_preserved \in BOOLEAN, native \in NativeErrors :
        LET raw == IF native = "SUCCESS" THEN nextRaw ELSE NO_IMAGE
            r == create_image(Self, strong, buffer, image_preserved, native, raw)
            made == r.calls # <<>> /\ native = "SUCCESS"
        IN  /\ nativeImages' = IF made THEN nativeImages \cup {raw} ELSE nativeImages
            /\ nextRaw' = IF made THEN nextRaw + 1 ELSE nextRaw
            /\ checkedRaws' = IF made THEN checkedRaws \cup {raw} ELSE checkedRaws
            /\ images' = IF r.image # None THEN Append(images, r.image[1]) ELSE images
            /\ strong' = r.strong
            /\ createdOk' = IF r.err = None THEN createdOk + 1 ELSE createdOk
            /\ openFds' = DropImageBuffer(openFds, buffer)
            /\ creator' = IF made THEN [creator EXCEPT ![raw] = r.calls[1].fn]
                           ELSE creator
            /\ last' = Op("create_image",
                          [buffer |-> buffer, image_preserved |-> image_preserved],
                          IF r.calls # <<>> THEN native ELSE "",
                          r.err, r.image, r.calls, ~terminated)
    /\ UNCHANGED <<version, display_extensions, displays, terminated,
                   destroyCount, panic>>

\* image.clone(): derived Clone, field by field
ImageClone ==
    /\ panic = "none"
    /\ Len(images) < MaxImages
    /\ \E i \in 1..Len(images) :
        /\ images' = Append(images, Image(images[i].display, images[i].raw))
        /\ strong' = Display_clone(strong)
        /\ last' = Op("Image::clone", NoRequest, "", None, None, <<>>, ~terminated)
    /\ UNCHANGED <<version, display_extensions, displays, terminated,
                   nativeImages, nextRaw, checkedRaws, createdOk, destroyCount,
                   panic, openFds, creator>>

\* drop(image): Drop::drop, then the drop of the display field
ImageDrop ==
    /\ panic # "aborted"
    /\ \E i \in 1..Len(images) :
        LET raw == images[i].raw
            call == DestroyCall(Self, raw)
        IN  \E ret \in DriverDestroyResults(raw) :
            /\ destroyCount' = [destroyCount EXCEPT ![raw] = @ + 1]
            /\ nativeImages' = IF ret = TRUE_ THEN nativeImages \ {raw}
                               ELSE nativeImages
            /\ last' = Op("Image::drop", NoRequest, "", None, None,
                          <<[fn |-> call.fn, raw |-> call.raw, ret |-> ret]>>,
                          ~terminated)
            /\ \E p \in (IF DropAssertHolds(ret) THEN {panic}
                         ELSE PanicOutcomes(panic)) :
                /\ panic' = p
                /\ IF p = "aborted"
                   THEN UNCHANGED <<images, strong, terminated>>
                   ELSE /\ images' = RemoveAt(images, i)
                        /\ strong' = Display_drop(strong)
                        /\ terminated' = (terminated \/ TornDown(strong'))
    /\ UNCHANGED <<version, display_extensions, displays, nextRaw,
                   checkedRaws, createdOk, openFds, creator>>

\* display.clone() on a Display handle the caller holds
DisplayClone ==
    /\ panic = "none"
    /\ displays > 0
    /\ displays < MaxDisplays
    /\ displays' = displays + 1
    /\ strong' = Display_clone(strong)
    /\ last' = Op("Display::clone", NoRequest, "", None, None, <<>>, ~terminated)
    /\ UNCHANGED <<version, display_extensions, terminated, images,
                   nativeImages, nextRaw, checkedRaws, createdOk, destroyCount,
                   panic, openFds, creator>>

\* drop(display) of a Display handle the caller holds
DisplayDrop ==
    /\ panic # "aborted"
    /\ displays > 0
    /\ displays' = displays - 1
    /\ strong' = Display_drop(strong)
    /\ terminated' = (terminated \/ TornDown(strong'))
    /\ last' = Op("Display::drop", NoRequest, "", None, None, <<>>, ~terminated)
    /\ UNCHANGED <<version, display_extensions, images, nativeImages, nextRaw,
                   checkedRaws, createdOk, destroyCount, panic, openFds,
                   creator>>

\* the caller drops the buffer object that owns the descriptors, which no
\* borrow is holding: it owns them, before and after any create_image
CallerCloseFds ==
    /\ panic = "none"
    /\ openFds # {}
    /\ openFds' = {}
    /\ last' = Op("close", NoRequest, "", None, None, <<>>, ~terminated)
    /\ UNCHANGED <<version, display_extensions, displays, strong, terminated,
                   images, nativeImages, nextRaw, checkedRaws, createdOk,
                   destroyCount, panic, creator>>

Next ==
    \/ CreateImage
    \/ ImageClone
    \/ ImageDrop
    \/ DisplayClone
    \/ DisplayDrop
    \/ CallerCloseFds

Spec == Init /\ [][Next]_vars

TypeOK ==
    /\ displays \in 0..MaxDisplays
    /\ strong \in 0..(MaxDisplays + MaxImages)
    /\ Len(images) <= MaxImages
    /\ nextRaw \in 1..(MaxCreates + 1)
    /\ panic \in {"none", "unwinding", "aborted"}

----------------------------------------------------------------------------
\* Vocabulary of the properties, stated on the state alone.

AtLeast(v, major, minor) == v[1] > major \/ (v[1] = major /\ v[2] >= minor)

Has(ext) == ext \in display_extensions

IsCreate == last.op = "create_image"

\* create_image returned Err(NotSupported)
Rejected ==
    IsCreate /\ last.result # None /\ last.result[1].kind = "NotSupported"

\* create_image returned Err(NotSupported) with this reason
RejectedFor(msg) == Rejected /\ last.result[1].msg = msg

\* create_image got through validation: it reached the creation call
Dispatched == IsCreate /\ last.calls # <<>>

Preserved == last.request.image_preserved

Kind == last.request.buffer.kind

\* the capability requirements as the documentation words them
PreservedLegal ==
    AtLeast(version, 1, 5)
    \/ (AtLeast(version, 1, 2) /\ Has("EGL_KHR_image_base"))

NativePixmapLegal ==
    \/ AtLeast(version, 1, 5)
    \/ (AtLeast(version, 1, 2) /\ Has("EGL_KHR_image"))
    \/ (AtLeast(version, 1, 2) /\ Has("EGL_KHR_image_base")
          /\ Has("EGL_KHR_native_pixmap"))

DmaBufLegal ==
    /\ AtLeast(version, 1, 2)
    /\ Has("EGL_EXT_image_dma_buf_import")
    /\ (AtLeast(version, 1, 5) \/ Has("EGL_KHR_image_base"))

RequestLegal ==
    /\ AtLeast(version, 1, 2)
    /\ (Preserved => PreservedLegal)
    /\ (Kind = "NativePixmap" => NativePixmapLegal)
    /\ (Kind = "DmaBuf" => DmaBufLegal)

TotalDestroyCalls ==
    LET S[n \in 0..MaxCreates] ==
            IF n = 0 THEN destroyCount[0] ELSE destroyCount[n] + S[n - 1]
    IN  S[MaxCreates]

----------------------------------------------------------------------------
\* C1: every native image is destroyed exactly once: no raw EGLImage is
\* passed to a destroy call more than once, and once every Image has been
\* dropped the number of destroy calls equals the number of create_image
\* calls that returned Ok.  (Violated: Image derives Clone, and each clone
\* destroys the same raw handle when dropped.)
C1_DestroyedExactlyOnce ==
    /\ \A r \in DOMAIN destroyCount : destroyCount[r] <= 1
    /\ (images = <<>> => TotalDestroyCalls = createdOk)

\* C2: when create_image returns NotSupported no native call has been
\* issued for the request; at most one creation call is issued per request,
\* and only for a request that satisfies every capability check.
C2_NoCallBeforeValidation ==
    IsCreate =>
        /\ (Rejected => last.calls = <<>>)
        /\ Len(last.calls) <= 1
        /\ (Dispatched => RequestLegal)

\* C2 witness: a request is rejected by the last check of the DmaBuf arm,
\* after the version floor and the import extension were accepted.
C2_Witness ==
    /\ RejectedFor("EGL_KHR_image_base")
    /\ AtLeast(version, 1, 2)
    /\ Has("EGL_EXT_image_dma_buf_import")
    /\ last.calls = <<>>

\* C3: CreateImage is issued only at version >= 1.5; CreateImageKHR only at
\* 1.2 <= version < 1.5 with EGL_KHR_image or EGL_KHR_image_base present;
\* and when neither precondition holds create_image returns NotSupported.
C3_DispatchPreconditions ==
    IsCreate =>
        /\ \A i \in 1..Len(last.calls) :
            /\ last.calls[i].fn \in {"CreateImage", "CreateImageKHR"}
            /\ last.calls[i].fn = "CreateImage" => AtLeast(version, 1, 5)
            /\ last.calls[i].fn = "CreateImageKHR" =>
                /\ AtLeast(version, 1, 2)
                /\ ~AtLeast(version, 1, 5)
                /\ (Has("EGL_KHR_image") \/ Has("EGL_KHR_image_base"))
        /\ (/\ ~AtLeast(version, 1, 5)
            /\ ~(/\ AtLeast(version, 1, 2)
                 /\ (Has("EGL_KHR_image") \/ Has("EGL_KHR_image_base"))))
           => Rejected

\* C3 witness: the core entry point is issued on a display of major
\* version 2, whose minor version alone is below 5.
C3_Witness ==
    /\ Dispatched
    /\ last.calls[1].fn = "CreateImage"
    /\ version = <<2, 0>>

\* C4: a NativePixmap request without image_preserved passes validation
\* exactly when version >= 1.5, or version >= 1.2 with EGL_KHR_image, or
\* version >= 1.2 with EGL_KHR_image_base and EGL_KHR_native_pixmap, and is
\* NotSupported otherwise; 1.4 with {EGL_KHR_image_base,
\* EGL_KHR_native_pixmap} goes the KHR path, 1.2 with no extension is
\* NotSupported.
C4_NativePixmapValidation ==
    (IsCreate /\ Kind = "NativePixmap" /\ ~Preserved) =>
        /\ Dispatched <=> NativePixmapLegal
        /\ ~NativePixmapLegal => Rejected
        /\ (/\ version = <<1, 4>>
            /\ display_extensions =
                 {"EGL_KHR_image_base", "EGL_KHR_native_pixmap"})
           => (Dispatched /\ last.calls[1].fn = "CreateImageKHR")
        /\ (version = <<1, 2>> /\ display_extensions = {}) => Rejected

\* C4 witness: scenario 1, a NativePixmap request at 1.4 with exactly
\* EGL_KHR_image_base and EGL_KHR_native_pixmap reaches CreateImageKHR.
C4_Witness ==
    /\ IsCreate /\ Kind = "NativePixmap" /\ ~Preserved
    /\ version = <<1, 4>>
    /\ display_extensions = {"EGL_KHR_image_base", "EGL_KHR_native_pixmap"}
    /\ Dispatched
    /\ last.calls[1].fn = "CreateImageKHR"
    /\ last.calls[1].target = NATIVE_PIXMAP_KHR

\* C5: a DmaBuf request without image_preserved passes validation exactly
\* when version >= 1.2, EGL_EXT_image_dma_buf_import is present and
\* (version >= 1.5 or EGL_KHR_image_base is present), and is NotSupported
\* otherwise; the import extension is required at version >= 1.5 too.
C5_DmaBufValidation ==
    (IsCreate /\ Kind = "DmaBuf" /\ ~Preserved) =>
        /\ Dispatched <=> DmaBufLegal
        /\ ~DmaBufLegal => Rejected
        /\ (AtLeast(version, 1, 5) /\ ~Has("EGL_EXT_image_dma_buf_import"))
           => Rejected

\* C5 witness: a DmaBuf request at version >= 1.5 is rejected for the
\* missing import extension.
C5_Witness ==
    /\ IsCreate /\ Kind = "DmaBuf" /\ ~Preserved
    /\ AtLeast(version, 1, 5)
    /\ ~Has("EGL_EXT_image_dma_buf_import")
    /\ RejectedFor("EGL_EXT_image_dma_buf_import")

\* C6: with image_preserved = true create_image returns NotSupported, for
\* either buffer kind, whenever version < 1.5 and EGL_KHR_image_base is
\* absent; and it never rejects the flag itself when version >= 1.5, or
\* version >= 1.2 with EGL_KHR_image_base.
C6_PreservedValidation ==
    (IsCreate /\ Preserved) =>
        /\ (~AtLeast(version, 1, 5) /\ ~Has("EGL_KHR_image_base")) => Rejected
        /\ PreservedLegal => ~RejectedFor("IMAGE_PRESERVED")

\* C6 witness: scenario 4, the flag is rejected at 1.2 with no extension.
C6_Witness ==
    /\ IsCreate /\ Preserved
    /\ version = <<1, 2>>
    /\ display_extensions = {}
    /\ RejectedFor("IMAGE_PRESERVED")

\* The attribute list handed to the creation call, and its key positions
\* (indices 0, 2, 4, ... of the list; 1, 3, 5, ... of the sequence).
Attrib == last.calls[1].attrib

KeyPositions(a) == {i \in 1..Len(a) : i % 2 = 1}

\* the position of the preserved pair in the list of the last creation call
C7_PreservedPairFirst ==
    Dispatched =>
        /\ Preserved =>
            /\ Len(Attrib) >= 2
            /\ Attrib[1] = IMAGE_PRESERVED
            /\ Attrib[2] = TRUE_
            /\ \A i \in KeyPositions(Attrib) \ {1} : Attrib[i] # IMAGE_PRESERVED
        /\ ~Preserved =>
            \A i \in KeyPositions(Attrib) : Attrib[i] # IMAGE_PRESERVED

\* two successive creation calls for one request pass one list
C7_SameRequestSameList ==
    (Dispatched /\ Dispatched' /\ last'.request = last.request)
        => last'.calls[1].attrib = Attrib

\* C7: the attribute list passed to the creation call depends on the
\* request only (two calls with the same buffer description and
\* image_preserved value pass the same list); with image_preserved the pair
\* (IMAGE_PRESERVED, TRUE) is at indices 0 and 1, before every other entry,
\* for either buffer kind and any planes; without it no key of the list is
\* IMAGE_PRESERVED.
C7_AttribDeterministic ==
    [](C7_PreservedPairFirst) /\ [][C7_SameRequestSameList]_vars

\* C7 witness: a preserved DmaBuf request with all three planes was
\* dispatched, the pair leading the list and WIDTH following it.
C7_Witness ==
    /\ Dispatched /\ Preserved /\ Kind = "DmaBuf"
    /\ last.request.buffer.plane1 # None
    /\ last.request.buffer.plane2 # None
    /\ Attrib[1] = IMAGE_PRESERVED
    /\ Attrib[3] = WIDTH

\* The list a DmaBuf request is documented to encode to.
PlaneEntries(fdKey, offsetKey, pitchKey, plane) ==
    <<fdKey, plane.fd, offsetKey, plane.offset, pitchKey, plane.pitch>>

OptionalPlaneEntries(fdKey, offsetKey, pitchKey, plane) ==
    IF plane = None THEN <<>>
    ELSE PlaneEntries(fdKey, offsetKey, pitchKey, plane[1])

ExpectedDmaBufAttrib ==
    LET b == last.request.buffer
    IN  (IF Preserved THEN <<IMAGE_PRESERVED, TRUE_>> ELSE <<>>)
        \o <<WIDTH, b.width, HEIGHT, b.height, LINUX_DRM_FOURCC_EXT, b.drm_fourcc>>
        \o PlaneEntries(DMA_BUF_PLANE0_FD_EXT, DMA_BUF_PLANE0_OFFSET_EXT,
                        DMA_BUF_PLANE0_PITCH_EXT, b.plane0)
        \o OptionalPlaneEntries(DMA_BUF_PLANE1_FD_EXT, DMA_BUF_PLANE1_OFFSET_EXT,
                        DMA_BUF_PLANE1_PITCH_EXT, b.plane1)
        \o OptionalPlaneEntries(DMA_BUF_PLANE2_FD_EXT, DMA_BUF_PLANE2_OFFSET_EXT,
                        DMA_BUF_PLANE2_PITCH_EXT, b.plane2)
        \o <<NONE>>

PresentPlanes ==
    LET b == last.request.buffer
    IN  1 + (IF b.plane1 # None THEN 1 ELSE 0) + (IF b.plane2 # None THEN 1 ELSE 0)

Plane1Keys ==
    {DMA_BUF_PLANE1_FD_EXT, DMA_BUF_PLANE1_OFFSET_EXT, DMA_BUF_PLANE1_PITCH_EXT}

Plane2Keys ==
    {DMA_BUF_PLANE2_FD_EXT, DMA_BUF_PLANE2_OFFSET_EXT, DMA_BUF_PLANE2_PITCH_EXT}

\* C8: a dispatched DmaBuf request encodes to the optional preserved pair,
\* WIDTH, HEIGHT, LINUX_DRM_FOURCC_EXT, the (FD, OFFSET, PITCH) pairs of each
\* present plane in the order 0, 1, 2, and one NONE as the last element; an
\* absent plane contributes no key, so the sentinel is preceded by
\* 3 + 3 * (present planes) pairs, one more with the preserved pair.
C8_DmaBufEncoding ==
    (Dispatched /\ Kind = "DmaBuf") =>
        /\ Attrib = ExpectedDmaBufAttrib
        /\ Len(Attrib) =
             2 * (3 + 3 * PresentPlanes + (IF Preserved THEN 1 ELSE 0)) + 1
        /\ Attrib[Len(Attrib)] = NONE
        /\ \A i \in KeyPositions(Attrib) \ {Len(Attrib)} : Attrib[i] # NONE
        /\ last.request.buffer.plane1 = None =>
             \A i \in KeyPositions(Attrib) : Attrib[i] \notin Plane1Keys
        /\ last.request.buffer.plane2 = None =>
             \A i \in KeyPositions(Attrib) : Attrib[i] \notin Plane2Keys

\* C8 witness: scenario 3, at 1.5 a request with plane0 and plane1 and no
\* plane2 encodes to 9 pairs and the sentinel.
C8_Witness ==
    /\ Dispatched /\ Kind = "DmaBuf" /\ ~Preserved
    /\ version = <<1, 5>>
    /\ last.request.buffer.plane1 # None
    /\ last.request.buffer.plane2 = None
    /\ Len(Attrib) = 19
    /\ Attrib[19] = NONE

\* create_image failed: in validation, or the driver reported an error
Failed == IsCreate /\ (last.calls = <<>> \/ last.native # "SUCCESS")

\* what exists and what was destroyed came from a checked creation call
C9_OnlyCheckedImages ==
    /\ Failed => (last.result # None /\ last.image = None)
    /\ (IsCreate /\ last.image # None) =>
         (last.result = None /\ last.image[1].raw \in checkedRaws)
    /\ \A i \in 1..Len(images) : images[i].raw \in checkedRaws
    /\ \A r \in DOMAIN destroyCount : destroyCount[r] > 0 => r \in checkedRaws

\* a failing create_image adds no Image and issues no destroy call
C9_FailureConstructsNothing ==
    Failed' => (images' = images /\ destroyCount' = destroyCount)

\* C9: a create_image call that fails, in validation or because the
\* creation call reported an error, returns an error and constructs no
\* Image; no destroy call is issued for it, and every Image that exists
\* wraps the handle of a creation call whose error check succeeded.
C9_NoImageOnFailure ==
    [](C9_OnlyCheckedImages) /\ [][C9_FailureConstructsNothing]_vars

\* C9 witness: the creation call was issued and the driver reported an
\* error, which create_image returned, next to an Image created earlier.
C9_Witness ==
    /\ Dispatched
    /\ last.native = "BAD_ALLOC"
    /\ last.result # None
    /\ last.result[1].kind = "BAD_ALLOC"
    /\ last.image = None
    /\ Len(images) = 1

\* C10: every Image holds a strong reference to its Display: the strong
\* count is the number of Display handles plus the number of Images, the
\* native display is torn down only when no Image is left, and every image
\* destroy call is issued while the native display is still up.
C10_DisplayOutlivesImages ==
    /\ strong = displays + Len(images)
    /\ terminated => (images = <<>> /\ displays = 0)
    /\ last.op = "Image::drop" => last.display_live

\* C10 witness: the caller's Display handles were dropped first, and the
\* drop of the last Image, its destroy call issued on the live display,
\* tore the native display down.
C10_Witness ==
    /\ last.op = "Image::drop"
    /\ last.display_live
    /\ last.calls[1].ret = TRUE_
    /\ displays = 0
    /\ images = <<>>
    /\ terminated

\* create_image and the drop of an Image leave the caller's descriptors as
\* they were
C11_FdsUntouched ==
    last'.op \in {"create_image", "Image::drop"} => openFds' = openFds

\* an Image is a display reference and a raw handle, nothing else
C11_ImageHoldsNoFd ==
    /\ \A i \in 1..Len(images) : DOMAIN images[i] = {"display", "raw"}
    /\ \A i \in 1..Len(last.image) : DOMAIN last.image[i] = {"display", "raw"}

\* C11: create_image closes none of the file descriptors borrowed in the
\* plane descriptors and keeps none: the caller's open descriptors are the
\* same after create_image, on success and on every error path, and after
\* the drop of an Image, and an Image consists of the display reference and
\* the raw handle only.
C11_BorrowedFdsLeftAlone ==
    [](C11_ImageHoldsNoFd) /\ [][C11_FdsUntouched]_vars

\* C11 witness: a DmaBuf request with three planes returned an Image and
\* the three descriptors are still open.
C11_Witness ==
    /\ Dispatched /\ Kind = "DmaBuf"
    /\ last.request.buffer.plane1 # None
    /\ last.request.buffer.plane2 # None
    /\ last.image # None
    /\ BorrowedFds(last.request.buffer) = {3, 4, 5}
    /\ openFds = {3, 4, 5}

\* the destroy entry point of the family of a creation entry point
DestroyOf(fn) ==
    IF fn = "CreateImage" THEN "DestroyImage"
    ELSE IF fn = "CreateImageKHR" THEN "DestroyImageKHR"
    ELSE "none"

\* the destroy call of the last drop, and what followed a failure
C12_DropCall ==
    last.op = "Image::drop" =>
        /\ Len(last.calls) = 1
        /\ AtLeast(version, 1, 5) => last.calls[1].fn = "DestroyImage"
        /\ ~AtLeast(version, 1, 5) => last.calls[1].fn = "DestroyImageKHR"
        /\ last.calls[1].fn = DestroyOf(creator[last.calls[1].raw])
        /\ last.calls[1].ret # TRUE_ => panic \in {"unwinding", "aborted"}
        /\ last.result = None

\* a panic is not recovered from
C12_PanicStays == panic # "none" => panic' # "none"

\* C12: dropping an Image issues DestroyImage when the display version is
\* >= 1.5 and DestroyImageKHR otherwise, the family of the entry point that
\* created it; if the call returns anything but TRUE the program panics
\* (unwinding or aborting) and stays so: the failure is neither ignored nor
\* returned as an error.
C12_DropDestroysOrPanics ==
    [](C12_DropCall) /\ [][C12_PanicStays]_vars

\* C12 witness: at version >= 1.5 a drop got FALSE from DestroyImage and the
\* program panicked.
C12_Witness ==
    /\ last.op = "Image::drop"
    /\ last.calls[1].fn = "DestroyImage"
    /\ last.calls[1].ret = FALSE_
    /\ panic # "none"

====
